---- MODULE Spec2Model ----
(***************************************************************************)
(* Batch clearing of double-sided energy auctions:                         *)
(* gsy_framework/matching_algorithms/best_matching_algorithm.py.           *)
(*                                                                         *)
(* The batch runner (get_market_matches and the cluster variant of         *)
(* get_matches_recommendations), accept_orders and                         *)
(* generate_recommendations are translated from the source.  The three     *)
(* clearing strategies behind market.accept_order / market.match and the   *)
(* power network are not part of the source tree; they are modelled from   *)
(* sections 3 and 4 of the specification.                                  *)
(***************************************************************************)
EXTENDS Integers, Sequences, FiniteSets, TLC

\* ------------------------------------------------------------------ bounds
\* Largest number of bids, and of offers, in one order book.
MaxOrders == 2
\* Largest number of (market, slot) pairs in one batch.
MaxPairs == 2
\* External energies are 0..MaxEnergy, rates 1..MaxRate, cluster tags 1..MaxCluster.
MaxEnergy == 2
MaxRate == 2
MaxCluster == 1
\* Stand-in for the clamp 2 ** 63 - 1 (TLC evaluates 32-bit integers):
\* chosen between the internal values of the external energies so that the
\* clamp applies to the largest of them.
MaxInternal == 1500

\* Bits of the mantissa of a float in the conversion round trip (53 in the
\* build): integers up to 2 ^ MantissaBits are floats, not all above.
MantissaBits == 6

\* ------------------------------------------------------------- constants
ENERGY_UNIT_CONVERSION_FACTOR == 1000
\* The value of dict.get("cluster") for an order without a cluster tag.
None == -1
\* A variant of ActorNode that puts the actors on another node.
ActorNodeOne == 0 + 1
\* "Currently at a single node with id 0".
ActorNode == 0
\* Argument of power_network.create_random.
NetworkSize == 1
\* The single implicit node of the agents without an assignment.
DefaultNode == 0

Min(a, b) == IF a <= b THEN a ELSE b

\* ------------------------------------------------------------------ input
\* An input order is a dict: a function whose domain is the set of its keys.
HasKey(d, k) == k \in DOMAIN d
Drop(d, k) == [x \in DOMAIN d \ {k} |-> d[x]]

Buyers == {1}
Sellers == {7}
Energies == 0 .. MaxEnergy
Rates == 1 .. MaxRate
ClusterTags == 1 .. MaxCluster

PlainBids(i) ==
    {[id |-> i, buyer |-> a, energy |-> e, energy_rate |-> r] :
        a \in Buyers, e \in Energies \ {0}, r \in Rates}
PlainOffers(i) ==
    {[id |-> i, seller |-> a, energy |-> e, energy_rate |-> r] :
        a \in Sellers, e \in Energies \ {0}, r \in Rates}
\* Orders that carry attributes.cluster.
TaggedBids(i) ==
    {[id |-> i, buyer |-> a, energy |-> 1, energy_rate |-> MaxRate,
      attributes |-> [cluster |-> c]] : a \in Buyers, c \in ClusterTags}
TaggedOffers(i) ==
    {[id |-> i, seller |-> a, energy |-> e, energy_rate |-> 1,
      attributes |-> [cluster |-> c]] :
        a \in Sellers, e \in Energies \ {0}, c \in ClusterTags}
\* Orders without positive energy: a bid of energy zero, offers of energy zero
\* and below zero.
EmptyBids(i) ==
    {[id |-> i, buyer |-> a, energy |-> 0, energy_rate |-> MaxRate] : a \in Buyers}
EmptyOffers(i) ==
    {[id |-> i, seller |-> a, energy |-> e, energy_rate |-> 1] :
        a \in Sellers, e \in {0, 0 - 1}}
\* Malformed orders: one required key is missing.
BadBids(i) ==
    LET base == [id |-> i, buyer |-> 1, energy |-> 1, energy_rate |-> MaxRate]
    IN  {Drop(base, k) : k \in {"id", "buyer", "energy", "energy_rate"}}
BadOffers(i) ==
    LET base == [id |-> i, seller |-> 7, energy |-> 1, energy_rate |-> 1]
    IN  {Drop(base, k) : k \in {"id", "seller", "energy", "energy_rate"}}

\* The id of an order is its position in its list.
RichBids(i) == PlainBids(i) \cup TaggedBids(i) \cup EmptyBids(i)
RichOffers(i) == PlainOffers(i) \cup TaggedOffers(i) \cup EmptyOffers(i)
SmallBids(i) == PlainBids(i) \cup {b \in BadBids(i) : HasKey(b, "buyer") /\ HasKey(b, "energy_rate")}
SmallOffers(i) ==
    {o \in PlainOffers(i) : o.energy = 1} \cup {o \in TaggedOffers(i) : o.energy = 1}
        \cup {o \in BadOffers(i) : HasKey(o, "id") /\ HasKey(o, "energy")}

\* Lists of 0..n bids ("bids") or offers ("offers"), the i-th with id i.
RECURSIVE ListsOf(_, _)
ListsOf(side, n) ==
    IF n = 0 THEN {<<>>}
    ELSE LET shorter == ListsOf(side, n - 1)
         IN  shorter \cup
             {Append(l, x) : l \in {s \in shorter : Len(s) = n - 1},
                             x \in IF side = "bids" THEN RichBids(n) ELSE RichOffers(n)}

\* Order books {"bids": [...], "offers": [...]}.
RichBooks ==
    {[bids |-> b, offers |-> o] :
        b \in ListsOf("bids", MaxOrders), o \in ListsOf("offers", MaxOrders)}
\* The small order books of the slot at time t: at most one bid and one
\* offer, whose id is t (ids are unique within one (market, slot) only).
SmallBooks(t) ==
    {[bids |-> b, offers |-> o] :
        b \in {<<>>} \cup {<<x>> : x \in SmallBids(t)},
        o \in {<<>>} \cup {<<x>> : x \in SmallOffers(t)}}

\* matching_data is a dict of dicts; both keep insertion order, so it is a
\* sequence of markets, each a sequence of time slots.  A shape gives the
\* number of slots of each market.
RECURSIVE ShapesOf(_)
ShapesOf(n) ==
    IF n = 0 THEN {<<>>}
    ELSE {<<>>} \cup
         UNION {{<<k>> \o s : s \in ShapesOf(n - k)} : k \in 1 .. n}

Slot(t, book) == [time |-> t, orders |-> book]
MarketEntry(i, slots) == [market_id |-> i, slots |-> slots]

\* The batches of one (market, slot) pair, over the rich order books.
SingleBatches == {<<MarketEntry(1, <<Slot(1, b)>>)>> : b \in RichBooks}
\* The batches of several pairs, over the small order books.
RECURSIVE SlotLists(_, _)
SlotLists(n, from) ==
    IF n = 0 THEN {<<>>}
    ELSE {<<Slot(from, b)>> \o rest : b \in SmallBooks(from), rest \in SlotLists(n - 1, from + 1)}
RECURSIVE BatchesOfShape(_, _)
BatchesOfShape(shape, i) ==
    IF shape = <<>> THEN {<<>>}
    ELSE {<<MarketEntry(i, sl)>> \o rest :
            sl \in SlotLists(Head(shape), 1), rest \in BatchesOfShape(Tail(shape), i + 1)}
RECURSIVE SumSeq(_)
SumSeq(s) == IF s = <<>> THEN 0 ELSE Head(s) + SumSeq(Tail(s))
MultiBatches ==
    UNION {BatchesOfShape(sh, 1) : sh \in {s \in ShapesOf(MaxPairs) : SumSeq(s) # 1}}

\* The order book of the pay-as-clear example: two bids of one energy at the
\* rates 25 and 15, one offer of one and a half times that energy at the
\* rate 10 (internal energies 1000, 1000 and, cut by the clamp, MaxInternal).
ExampleBook ==
    [bids |-> <<[id |-> 1, buyer |-> 1, energy |-> 1, energy_rate |-> 25],
                [id |-> 2, buyer |-> 1, energy |-> 1, energy_rate |-> 15]>>,
     offers |-> <<[id |-> 1, seller |-> 7, energy |-> 2, energy_rate |-> 10]>>]
ExampleBatches == {<<MarketEntry(1, <<Slot(1, ExampleBook)>>)>>}

Strategies == {"pay_as_bid", "pay_as_clear", "cluster"}

\* The (market, slot) pairs of a batch in the order of the nested loops
\* "for market_id, market_name in matching_data.items():
\*      for time, orders in market_name.items():".
RECURSIVE PairsOf(_)
PairsOf(md) ==
    IF md = <<>> THEN <<>>
    ELSE [j \in 1 .. Len(Head(md).slots) |->
             [market_id |-> Head(md).market_id,
              time |-> Head(md).slots[j].time,
              orders |-> Head(md).slots[j].orders]] \o PairsOf(Tail(md))

\* ---------------------------------------------------------- power network
\* power_network.create_random(n): a random tree over the nodes 0..n-1 (every
\* node but 0 hangs under a randomly chosen earlier node) without actors.
create_random(n) ==
    {[nodes |-> 0 .. (n - 1), parent |-> p, actors |-> <<>>] :
        p \in [1 .. (n - 1) -> 0 .. (n - 1)]}

\* A variant of NewNetworks whose node ids start at a random number.
NewNetworksRelabelled ==
    {[nodes |-> {x + d : x \in net.nodes},
      parent |-> [c \in {x + d : x \in DOMAIN net.parent} |-> net.parent[c - d] + d],
      actors |-> net.actors] : net \in create_random(NetworkSize), d \in {0, 1}}

\* "pn = power_network.create_random(1)": the networks the call may return.
NewNetworks == create_random(NetworkSize)

\* The strategies without topology are given no network.
NoNetwork == [nodes |-> {}, parent |-> <<>>, actors |-> <<>>]

\* "actors = [bid["id"] ...] + [ask["id"] ...]": the keys of the actor map
\* are the ids of the orders of the slot.
ActorsOf(orders) ==
    [i \in 1 .. Len(orders.bids) |-> orders.bids[i].id] \o
    [i \in 1 .. Len(orders.offers) |-> orders.offers[i].id]

\* A variant of actor_nodes that spreads the actors over the nodes 0, 1, ...
actor_nodes_spread(actors) == [i \in 1 .. Len(actors) |-> i - 1]

\* "actor_nodes = [0 for i in actors]".
actor_nodes(actors) == [i \in 1 .. Len(actors) |-> ActorNode]

\* "map_actors = {actor: node_id for actor, node_id in zip(actors, actor_nodes)}".
map_actors(actors) ==
    [a \in {actors[i] : i \in 1 .. Len(actors)} |->
        LET last == CHOOSE i \in 1 .. Len(actors) :
                        /\ actors[i] = a
                        /\ \A j \in 1 .. Len(actors) : actors[j] = a => j <= i
        IN  actor_nodes(actors)[last]]

\* pn.add_actors_map(map): the entries are added to the network; entries of
\* earlier calls stay.
add_actors_map(net, map) ==
    [net EXCEPT !.actors =
        [a \in DOMAIN map \cup DOMAIN net.actors |->
            IF a \in DOMAIN map THEN map[a] ELSE net.actors[a]]]

\* The node of an order: its cluster tag, else the node its agent is
\* assigned to, else the default node.
NodeOf(net, order) ==
    IF order.cluster # None THEN order.cluster
    ELSE IF order.actor_id \in DOMAIN net.actors THEN net.actors[order.actor_id]
    ELSE DefaultNode

\* The topology predicate: both nodes exist and are the same node or
\* neighbours in the tree.
can_trade(net, a, b, energy) ==
    /\ a \in net.nodes
    /\ b \in net.nodes
    /\ \/ a = b
       \/ a \in DOMAIN net.parent /\ net.parent[a] = b
       \/ b \in DOMAIN net.parent /\ net.parent[b] = a

\* ----------------------------------------------------------------- orders
\* simply.actor.Order(type, time, actor_id, cluster, energy, price).
Order(type, time, actor_id, cluster, energy, price) ==
    [type |-> type, time |-> time, actor_id |-> actor_id, cluster |-> cluster,
     energy |-> energy, price |-> price]
\* A variant of InternalEnergy that refuses what is beyond the clamp: the
\* order gets no energy.
InternalEnergyRefused(e) ==
    IF e * ENERGY_UNIT_CONVERSION_FACTOR > MaxInternal
    THEN 0
    ELSE e * ENERGY_UNIT_CONVERSION_FACTOR

\* A variant of InternalEnergy that takes the larger of the two values.
InternalEnergyMax(e) ==
    IF e * ENERGY_UNIT_CONVERSION_FACTOR > MaxInternal
    THEN e * ENERGY_UNIT_CONVERSION_FACTOR
    ELSE MaxInternal

\* A variant of InternalEnergy that forgets the clamp.
InternalEnergyUnclamped(e) == e * ENERGY_UNIT_CONVERSION_FACTOR

\* "min(bid["energy"] * ENERGY_UNIT_CONVERSION_FACTOR, 2 ** 63 - 1)".
InternalEnergy(e) == Min(e * ENERGY_UNIT_CONVERSION_FACTOR, MaxInternal)

\* A variant of ClusterOf that looks for the tag in the order itself.
ClusterOfOrder(o) == IF HasKey(o, "cluster") THEN o.cluster ELSE None

\* "(bid.get("attributes") or {}).get("cluster")".
ClusterOf(o) ==
    IF HasKey(o, "attributes") /\ HasKey(o.attributes, "cluster")
    THEN o.attributes.cluster
    ELSE None

\* A market right after construction, "m = market(time=time)": no orders,
\* no matches.  cand is the position of the strategy in its candidate pairs,
\* received the orders handed to accept_order so far, kept or not.
market(time) ==
    [t |-> time, bids |-> <<>>, asks |-> <<>>, matches |-> <<>>, cand |-> 1,
     closed |-> FALSE, received |-> <<>>]

\* market.accept_order(order, order_id): an order without positive energy is
\* rejected, any other joins its side of the book with its full energy left.
accept_order(m, order, order_id) ==
    LET entry == [id |-> order_id, order |-> order, left |-> order.energy]
        got == [m EXCEPT !.received = Append(@, entry)]
    IN  IF order.energy <= 0 THEN got
        ELSE IF order.type = -1 THEN [got EXCEPT !.bids = Append(@, entry)]
        ELSE [got EXCEPT !.asks = Append(@, entry)]

\* The keys accept_orders and the runner read with d[...]: a missing one
\* raises KeyError.
BidKeys == {"id", "buyer", "energy", "energy_rate"}
OfferKeys == {"id", "seller", "energy", "energy_rate"}
RaisesKeyError(orders) ==
    \/ \E i \in 1 .. Len(orders.bids) : ~(BidKeys \subseteq DOMAIN orders.bids[i])
    \/ \E i \in 1 .. Len(orders.offers) : ~(OfferKeys \subseteq DOMAIN orders.offers[i])

\* A variant of AcceptBids that hands energy and rate to Order in each
\* other's place.
RECURSIVE AcceptBidsSwapped(_, _, _, _)
AcceptBidsSwapped(m, time, bids, n) ==
    IF n = 0 THEN m
    ELSE LET bid == bids[n]
             energy == InternalEnergy(bid.energy)
             cluster == ClusterOf(bid)
             order == Order(-1, time, bid.buyer, cluster, bid.energy_rate, energy)
         IN  accept_order(AcceptBidsSwapped(m, time, bids, n - 1), order, bid.id)

\* A variant of AcceptBids that hands the bids over from the last to the first.
RECURSIVE AcceptBidsReversed(_, _, _, _)
AcceptBidsReversed(m, time, bids, n) ==
    IF n = 0 THEN m
    ELSE LET bid == bids[Len(bids) + 1 - n]
             energy == InternalEnergy(bid.energy)
             cluster == ClusterOf(bid)
             order == Order(-1, time, bid.buyer, cluster, energy, bid.energy_rate)
         IN  accept_order(AcceptBidsReversed(m, time, bids, n - 1), order, bid.id)

\* The two loops of accept_orders, over the first n bids and the first n offers.
RECURSIVE AcceptBids(_, _, _, _)
AcceptBids(m, time, bids, n) ==
    IF n = 0 THEN m
    ELSE LET bid == bids[n]
             energy == InternalEnergy(bid.energy)
             cluster == ClusterOf(bid)
             order == Order(-1, time, bid.buyer, cluster, energy, bid.energy_rate)
         IN  accept_order(AcceptBids(m, time, bids, n - 1), order, bid.id)
\* A variant of AcceptOffers that takes the larger of the converted energy
\* and the clamp.
RECURSIVE AcceptOffersMax(_, _, _, _)
AcceptOffersMax(m, time, offers, n) ==
    IF n = 0 THEN m
    ELSE LET ask == offers[n]
             converted == ask.energy * ENERGY_UNIT_CONVERSION_FACTOR
             energy == IF converted >= MaxInternal THEN converted ELSE MaxInternal
             cluster == ClusterOf(ask)
             order == Order(1, time, ask.seller, cluster, energy, ask.energy_rate)
         IN  accept_order(AcceptOffersMax(m, time, offers, n - 1), order, ask.id)
RECURSIVE AcceptOffers(_, _, _, _)
AcceptOffers(m, time, offers, n) ==
    IF n = 0 THEN m
    ELSE LET ask == offers[n]
             energy == InternalEnergy(ask.energy)
             cluster == ClusterOf(ask)
             order == Order(1, time, ask.seller, cluster, energy, ask.energy_rate)
         IN  accept_order(AcceptOffers(m, time, offers, n - 1), order, ask.id)

\* A variant of accept_orders whose second loop stops one offer short.
accept_orders_short(m, time, orders) ==
    AcceptOffers(AcceptBids(m, time, orders.bids, Len(orders.bids)),
                 time, orders.offers,
                 IF Len(orders.offers) = 0 THEN 0 ELSE Len(orders.offers) - 1)

\* accept_orders(market, time, orders), for orders that raise no KeyError.
accept_orders(m, time, orders) ==
    AcceptOffers(AcceptBids(m, time, orders.bids, Len(orders.bids)),
                 time, orders.offers, Len(orders.offers))

\* ------------------------------------------------------------- strategies
\* Rate priority with ties broken by submission order: bids by falling rate,
\* offers by rising rate.
BidBefore(book, i, j) ==
    \/ book[i].order.price > book[j].order.price
    \/ book[i].order.price = book[j].order.price /\ i < j
AskBefore(book, i, j) ==
    \/ book[i].order.price < book[j].order.price
    \/ book[i].order.price = book[j].order.price /\ i < j
\* The positions of the bids (offers) in priority order.
BidOrder(book) ==
    [r \in 1 .. Len(book) |->
        CHOOSE i \in 1 .. Len(book) :
            Cardinality({j \in 1 .. Len(book) : BidBefore(book, j, i)}) = r - 1]
AskOrder(book) ==
    [r \in 1 .. Len(book) |->
        CHOOSE i \in 1 .. Len(book) :
            Cardinality({j \in 1 .. Len(book) : AskBefore(book, j, i)}) = r - 1]

\* The first position in the priority order whose order is unfilled, 0 if none.
TopUnfilled(book, order) ==
    LET open == {r \in 1 .. Len(book) : book[order[r]].left > 0}
    IN  IF open = {} THEN 0
        ELSE order[CHOOSE r \in open : \A q \in open : r <= q]

\* Pay-as-bid and pay-as-clear look at the best unfilled bid and the best
\* unfilled offer: <<bid position, offer position>>, 0 for an exhausted side.
BestPair(m) ==
    <<TopUnfilled(m.bids, BidOrder(m.bids)), TopUnfilled(m.asks, AskOrder(m.asks))>>

\* Cluster-fair walks every <<bid, offer>> pair, bids in priority order and,
\* for each bid, the offers in priority order.
Candidates(m) ==
    [c \in 1 .. (Len(m.bids) * Len(m.asks)) |->
        <<BidOrder(m.bids)[((c - 1) \div Len(m.asks)) + 1],
          AskOrder(m.asks)[((c - 1) % Len(m.asks)) + 1]>>]

\* The pair the strategy considers next, <<0, 0>> when there is none left.
NextPair(strategy, m) ==
    IF strategy = "cluster"
    THEN IF m.cand <= Len(m.bids) * Len(m.asks) THEN Candidates(m)[m.cand] ELSE <<0, 0>>
    ELSE BestPair(m)

\* Whether the two orders of a pair cross.
Crosses(m, pair) ==
    m.bids[pair[1]].order.price >= m.asks[pair[2]].order.price

\* Whether the pair may be matched now.
Eligible(strategy, net, m, pair) ==
    /\ pair[1] # 0
    /\ pair[2] # 0
    /\ m.bids[pair[1]].left > 0
    /\ m.asks[pair[2]].left > 0
    /\ Crosses(m, pair)
    /\ strategy = "cluster" =>
          can_trade(net, NodeOf(net, m.bids[pair[1]].order),
                    NodeOf(net, m.asks[pair[2]].order),
                    Min(m.bids[pair[1]].left, m.asks[pair[2]].left))

\* What the strategy does next: it emits a match, skips the candidate pair
\* (cluster-fair only) or terminates.
StepKind(strategy, net, m) ==
    LET pair == NextPair(strategy, m)
    IN  IF Eligible(strategy, net, m, pair) THEN "match"
        ELSE IF strategy = "cluster" /\ pair # <<0, 0>> THEN "skip"
        ELSE "close"

\* The energy of the match of a pair: all that both orders have left.
TradedEnergy(m, pair) == Min(m.bids[pair[1]].left, m.asks[pair[2]].left)

\* The match of a pair; it carries the rate of its bid until the strategy
\* terminates.
MatchOf(m, pair) ==
    [bid_id |-> m.bids[pair[1]].id, ask_id |-> m.asks[pair[2]].id,
     energy |-> TradedEnergy(m, pair), price |-> m.bids[pair[1]].order.price]

\* Emitting the match of a pair: both orders lose the traded energy.
EmitMatch(m, pair) ==
    [m EXCEPT !.bids[pair[1]].left = @ - TradedEnergy(m, pair),
              !.asks[pair[2]].left = @ - TradedEnergy(m, pair),
              !.matches = Append(@, MatchOf(m, pair)),
              !.cand = @ + 1]

\* Skipping a pair changes no order.
SkipPair(m) == [m EXCEPT !.cand = @ + 1]

\* The uniform price of a slot: the rate of the bid of the last match, the
\* lowest-rate bid that trades.
ClearingPrice(m) == m.matches[Len(m.matches)].price

\* Termination: pay-as-bid keeps the bid rates, the other two strategies give
\* every match the clearing price.
CloseMarket(strategy, m) ==
    [m EXCEPT !.closed = TRUE,
              !.matches =
                  IF strategy = "pay_as_bid" \/ m.matches = <<>> THEN @
                  ELSE [i \in 1 .. Len(@) |-> [@[i] EXCEPT !.price = ClearingPrice(m)]]]

\* One step of market.match().
MarketStep(strategy, net, m) ==
    LET kind == StepKind(strategy, net, m)
    IN  IF kind = "match" THEN EmitMatch(m, NextPair(strategy, m))
        ELSE IF kind = "skip" THEN SkipPair(m)
        ELSE CloseMarket(strategy, m)

\* market.match(): the steps up to termination.
RECURSIVE match(_, _, _)
match(strategy, net, m) ==
    IF m.closed THEN m ELSE match(strategy, net, MarketStep(strategy, net, m))

\* ------------------------------------------------------- recommendations
\* A variant of ById that returns the first entry of the list whatever the id.
ByIdFirst(list, id) == list[1]

\* "bids = {bid["id"]: bid for bid in orders["bids"]}" and bids[id]: the last
\* entry of the list with that id.
ById(list, id) ==
    list[CHOOSE i \in 1 .. Len(list) :
             /\ list[i].id = id
             /\ \A j \in 1 .. Len(list) : list[j].id = id => j <= i]

\* "match["energy"] / ENERGY_UNIT_CONVERSION_FACTOR": the quotient, kept exact
\* as numerator and denominator.
SelectedEnergy(energy) == [num |-> energy, den |-> ENERGY_UNIT_CONVERSION_FACTOR]
\* A match names an order id that is not a key of the slot's dictionaries
\* "bids" and "asks" (lines 69-70), so that "bids[match["bid_id"]]" or
\* "asks[match["ask_id"]]" raises KeyError.
RefersUnknown(orders, matches) ==
    \E n \in 1 .. Len(matches) :
        \/ \A i \in 1 .. Len(orders.bids) : orders.bids[i].id # matches[n].bid_id
        \/ \A i \in 1 .. Len(orders.offers) : orders.offers[i].id # matches[n].ask_id

\* A variant of generate_recommendations that puts the order ids of the match
\* where the orders belong.
generate_recommendations_ids(market_id, time, bids, asks, matches) ==
    [i \in 1 .. Len(matches) |->
        [market_id |-> market_id,
         time_slot |-> time,
         matching_requirements |-> None,
         bid |-> [id |-> matches[i].bid_id],
         offer |-> [id |-> matches[i].ask_id],
         selected_energy |-> SelectedEnergy(matches[i].energy),
         trade_rate |-> matches[i].price]]

\* A variant of generate_recommendations that reports the rate of the bid
\* instead of the price of the match.
generate_recommendations_bid_rate(market_id, time, bids, asks, matches) ==
    [i \in 1 .. Len(matches) |->
        [market_id |-> market_id,
         time_slot |-> time,
         matching_requirements |-> None,
         bid |-> ById(bids, matches[i].bid_id),
         offer |-> ById(asks, matches[i].ask_id),
         selected_energy |-> SelectedEnergy(matches[i].energy),
         trade_rate |-> ById(bids, matches[i].bid_id).energy_rate]]

generate_recommendations(market_id, time, bids, asks, matches) ==
    [i \in 1 .. Len(matches) |->
        [market_id |-> market_id,
         time_slot |-> time,
         matching_requirements |-> None,
         bid |-> ById(bids, matches[i].bid_id),
         offer |-> ById(asks, matches[i].ask_id),
         selected_energy |-> SelectedEnergy(matches[i].energy),
         trade_rate |-> matches[i].price]]

\* ------------------------------------------- the conversions at float scale
\* The clamp 2 ** 63 - 1 = 2 ** (53 + 10) - 1 at the scale of MantissaBits:
\* ten bits more than a mantissa holds, so that as in the build there are
\* integers e beyond the mantissa with e * 1000 below the clamp.
FloatClamp == 2 ^ (MantissaBits + 10) - 1

\* External energies for the round trip: the integers up to the first whose
\* internal energy the clamp cuts.
FloatEnergies == 1 .. 2 ^ MantissaBits + 2

\* A variant of to_internal that forgets the conversion factor.
to_internal_raw(e) == Min(e, FloatClamp)

\* "min(bid["energy"] * ENERGY_UNIT_CONVERSION_FACTOR, 2 ** 63 - 1)": an
\* integer for an integer energy, exact.
to_internal(e) == Min(e * ENERGY_UNIT_CONVERSION_FACTOR, FloatClamp)

\* accept_orders for a book of one bid and one offer, with the clamp at
\* float scale.
accept_orders_float(m, time, orders) ==
    LET bid == orders.bids[1]
        ask == orders.offers[1]
        withBid == accept_order(m, Order(-1, time, bid.buyer, ClusterOf(bid),
                                         to_internal(bid.energy), bid.energy_rate),
                                bid.id)
    IN  accept_order(withBid, Order(1, time, ask.seller, ClusterOf(ask),
                                    to_internal(ask.energy), ask.energy_rate),
                     ask.id)

\* a / b rounded to the nearest integer, a tie to the even one.
RoundHalfEven(a, b) ==
    LET q == a \div b
        r == a % b
    IN  IF 2 * r < b THEN q
        ELSE IF 2 * r > b THEN q + 1
        ELSE IF q % 2 = 0 THEN q ELSE q + 1

RECURSIVE ExponentUp(_, _, _)
\* The least k >= 0 with n / (d * 2 ^ k) below 2 ^ MantissaBits.
ExponentUp(n, d, k) ==
    IF n < d * 2 ^ MantissaBits THEN k ELSE ExponentUp(n, 2 * d, k + 1)

RECURSIVE ExponentDown(_, _, _)
\* The least k >= 0 with n * 2 ^ k / d at least 2 ^ (MantissaBits - 1).
ExponentDown(n, d, k) ==
    IF 2 * n >= d * 2 ^ MantissaBits THEN k ELSE ExponentDown(2 * n, d, k + 1)

\* "match["energy"] / ENERGY_UNIT_CONVERSION_FACTOR" as Python computes it for
\* two integers: the float nearest to the quotient, that is the quotient
\* rounded to MantissaBits significant bits, a tie to the even mantissa.  The
\* float is kept as numerator and a denominator that is a power of two.
float_div(n, d) ==
    IF n = 0 THEN [num |-> 0, den |-> 1]
    ELSE IF n >= d * 2 ^ MantissaBits
    THEN LET k == ExponentUp(n, d, 0)
         IN  [num |-> RoundHalfEven(n, d * 2 ^ k) * 2 ^ k, den |-> 1]
    ELSE LET k == ExponentDown(n, d, 0)
         IN  [num |-> RoundHalfEven(n * 2 ^ k, d), den |-> 2 ^ k]

\* generate_recommendations with the quotient as Python computes it.
generate_recommendations_float(market_id, time, bids, asks, matches) ==
    LET recs == generate_recommendations(market_id, time, bids, asks, matches)
    IN  [i \in 1 .. Len(matches) |->
            [recs[i] EXCEPT !.selected_energy =
                float_div(matches[i].energy, ENERGY_UNIT_CONVERSION_FACTOR)]]

\* Books of one bid and one offer of the same energy.
FloatBooks ==
    {[bids |-> <<[id |-> 1, buyer |-> a, energy |-> e, energy_rate |-> r]>>,
      offers |-> <<[id |-> 1, seller |-> b, energy |-> e, energy_rate |-> r]>>] :
        a \in Buyers, b \in Sellers, e \in FloatEnergies, r \in Rates}

FloatBatches ==
    {<<[market_id |-> 1, slots |-> <<[time |-> 1, orders |-> b]>>]>> : b \in FloatBooks}

\* ---------------------------------------------------------- state machine
\* No validation and no SimulationAssetsInfo object in the calls of the
\* matching algorithms.
NoKwargs == <<>>
NoAssetsInfo == <<>>

VARIABLES
    strategy,         \* the strategy selected for the batch
    matching_data,    \* the input of the batch call
    call,             \* "ready", "running", "returned" or "raised"
    pn,               \* the power network of the call (cluster-fair)
    cursor,           \* the position of the nested loops in Pairs
    work,             \* per pair: the stage reached, its market, its sub-list
    recommendations,  \* the list the call builds and returns
    run,              \* the number of the call on this input
    first,            \* the outcome of the first call, once a second has begun
    kwargs,           \* the configuration handed to validate_storage_device
    outcome,          \* of the validation: "none", "pending", "accepted" or the error
    assets_info,      \* SimulationAssetsInfo.assets_info
    core_stats        \* <<the core_stats of the latest call of update>>, if any

vars == <<strategy, matching_data, call, pn, cursor, work, recommendations, run, first,
          kwargs, outcome, assets_info, core_stats>>

\* The variables of the matching algorithms, and the ones of d3a_interface.
matching == <<strategy, matching_data, call, pn, cursor, work, recommendations, run, first>>
d3a == <<kwargs, outcome, assets_info, core_stats>>

Pairs == PairsOf(matching_data)
NPairs == Len(Pairs)

NoWork(pairs) ==
    [k \in 1 .. Len(pairs) |-> [pc |-> "new", m |-> market(pairs[k].time), sub |-> <<>>]]
NoOutcome == [call |-> "none", recommendations |-> <<>>]

InitWith(batches) ==
    /\ strategy \in Strategies
    /\ matching_data \in batches
    /\ call = "ready"
    /\ pn = NoNetwork
    /\ cursor = 1
    /\ work = NoWork(PairsOf(matching_data))
    /\ recommendations = <<>>
    /\ run = 1
    /\ first = NoOutcome
    /\ kwargs = NoKwargs
    /\ outcome = "none"
    /\ assets_info = NoAssetsInfo
    /\ core_stats = <<>>

Init == InitWith(SingleBatches \cup MultiBatches \cup ExampleBatches)

\* The call begins: "recommendations = []", and for cluster-fair
\* "pn = power_network.create_random(1)".
Call ==
    /\ call = "ready"
    /\ call' = "running"
    /\ IF strategy = "cluster" THEN pn' \in NewNetworks ELSE pn' = NoNetwork
    /\ UNCHANGED <<d3a, strategy, matching_data, cursor, work, recommendations, run, first>>

\* The head of the loop body for pair k, up to accept_orders: the actor map
\* (cluster-fair), a new market, the orders.
Accept(k) ==
    /\ call = "running"
    /\ work[k].pc = "new"
    /\ ~RaisesKeyError(Pairs[k].orders)
    /\ pn' = IF strategy = "cluster"
             THEN add_actors_map(pn, map_actors(ActorsOf(Pairs[k].orders)))
             ELSE pn
    /\ work' = [work EXCEPT ![k].pc = "matching",
                            ![k].m = accept_orders(market(Pairs[k].time), Pairs[k].time,
                                                   Pairs[k].orders)]
    /\ UNCHANGED <<d3a, strategy, matching_data, call, cursor, recommendations, run, first>>

\* An order of pair k lacks a key: the KeyError leaves the loops and the call.
Raise(k) ==
    /\ call = "running"
    /\ work[k].pc = "new"
    /\ RaisesKeyError(Pairs[k].orders)
    /\ call' = "raised"
    /\ UNCHANGED <<d3a, strategy, matching_data, pn, cursor, work, recommendations, run, first>>

\* One step of m.match() for pair k, by its kind.
MatchStepOf(k, kind) ==
    /\ call = "running"
    /\ work[k].pc = "matching"
    /\ StepKind(strategy, pn, work[k].m) = kind
    /\ work' = [work EXCEPT ![k].m = MarketStep(strategy, pn, @),
                            ![k].pc = IF kind = "close" THEN "matched" ELSE @]
    /\ UNCHANGED <<d3a, strategy, matching_data, call, pn, cursor, recommendations, run, first>>

\* "recommendations += generate_recommendations(market_id, time, bids, asks, matches)".
Recommend(k) ==
    /\ call = "running"
    /\ work[k].pc = "matched"
    /\ ~RefersUnknown(Pairs[k].orders, work[k].m.matches)
    /\ LET sub == generate_recommendations(Pairs[k].market_id, Pairs[k].time,
                                           Pairs[k].orders.bids, Pairs[k].orders.offers,
                                           work[k].m.matches)
       IN  /\ work' = [work EXCEPT ![k].pc = "done", ![k].sub = sub]
           /\ recommendations' = recommendations \o sub
    /\ cursor' = cursor + 1
    /\ UNCHANGED <<d3a, strategy, matching_data, call, pn, run, first>>

\* A variant of KeyError that drops the pair of the malformed order and goes on.
KeyErrorSkipsPair ==
    /\ cursor <= NPairs
    /\ call = "running"
    /\ work[cursor].pc = "new"
    /\ RaisesKeyError(Pairs[cursor].orders)
    /\ work' = [work EXCEPT ![cursor].pc = "done"]
    /\ cursor' = cursor + 1
    /\ UNCHANGED <<d3a, strategy, matching_data, call, pn, recommendations, run, first>>

\* The sequential runner works on the pair under the cursor only.
AcceptOrders == cursor <= NPairs /\ Accept(cursor)
KeyError == cursor <= NPairs /\ Raise(cursor)
Match == cursor <= NPairs /\ MatchStepOf(cursor, "match")
Skip == cursor <= NPairs /\ MatchStepOf(cursor, "skip")
Close == cursor <= NPairs /\ MatchStepOf(cursor, "close")
Recommendations == cursor <= NPairs /\ Recommend(cursor)

\* "return recommendations".
Return ==
    /\ call = "running"
    /\ cursor > NPairs
    /\ call' = "returned"
    /\ UNCHANGED <<d3a, strategy, matching_data, pn, cursor, work, recommendations, run, first>>

Next ==
    \/ Call
    \/ AcceptOrders
    \/ KeyError
    \/ Match
    \/ Skip
    \/ Close
    \/ Recommendations
    \/ Return

Spec == Init /\ [][Next]_vars

\* ---------------------------------------------------- a strategy at fault
\* An internal fault of the strategy: one match of the pair under the cursor
\* comes back with an order id that is in no book (0; ids start at 1).
StrategyFault ==
    /\ call = "running"
    /\ cursor <= NPairs
    /\ work[cursor].pc = "matched"
    /\ ~RefersUnknown(Pairs[cursor].orders, work[cursor].m.matches)
    /\ \E n \in 1 .. Len(work[cursor].m.matches), side \in {"bid_id", "ask_id"} :
          work' = [work EXCEPT ![cursor].m.matches[n][side] = 0]
    /\ UNCHANGED <<d3a, strategy, matching_data, call, pn, cursor, recommendations, run, first>>

\* A variant of MatchKeyError that drops the slot of the unknown id and goes on.
MatchKeyErrorSkipsPair ==
    /\ call = "running"
    /\ cursor <= NPairs
    /\ work[cursor].pc = "matched"
    /\ RefersUnknown(Pairs[cursor].orders, work[cursor].m.matches)
    /\ work' = [work EXCEPT ![cursor].pc = "done"]
    /\ cursor' = cursor + 1
    /\ UNCHANGED <<d3a, strategy, matching_data, call, pn, recommendations, run, first>>

\* "bid = bids[match["bid_id"]]", "offer = asks[match["ask_id"]]" with an id
\* that is no key: KeyError leaves generate_recommendations and, with no
\* handler around line 75, get_market_matches.
MatchKeyError ==
    /\ call = "running"
    /\ cursor <= NPairs
    /\ work[cursor].pc = "matched"
    /\ RefersUnknown(Pairs[cursor].orders, work[cursor].m.matches)
    /\ call' = "raised"
    /\ UNCHANGED <<d3a, strategy, matching_data, pn, cursor, work, recommendations, run, first>>

NextFaulty ==
    \/ Next
    \/ StrategyFault
    \/ MatchKeyError

SpecFaulty == Init /\ [][NextFaulty]_vars

\* ------------------------------------------- the conversion round trip
\* The call on a book of one bid and one offer of the same energy, with the
\* conversions at float scale.
InitRoundTrip == InitWith(FloatBatches)

\* accept_orders for the pair under the cursor.
AcceptFloat ==
    /\ call = "running"
    /\ cursor <= NPairs
    /\ work[cursor].pc = "new"
    /\ pn' = IF strategy = "cluster"
             THEN add_actors_map(pn, map_actors(ActorsOf(Pairs[cursor].orders)))
             ELSE pn
    /\ work' = [work EXCEPT ![cursor].pc = "matching",
                            ![cursor].m = accept_orders_float(market(Pairs[cursor].time),
                                                              Pairs[cursor].time,
                                                              Pairs[cursor].orders)]
    /\ UNCHANGED <<d3a, strategy, matching_data, call, cursor, recommendations, run, first>>

\* generate_recommendations for the pair under the cursor.
RecommendFloat ==
    /\ call = "running"
    /\ cursor <= NPairs
    /\ work[cursor].pc = "matched"
    /\ LET sub == generate_recommendations_float(
                      Pairs[cursor].market_id, Pairs[cursor].time,
                      Pairs[cursor].orders.bids, Pairs[cursor].orders.offers,
                      work[cursor].m.matches)
       IN  /\ work' = [work EXCEPT ![cursor].pc = "done", ![cursor].sub = sub]
           /\ recommendations' = recommendations \o sub
    /\ cursor' = cursor + 1
    /\ UNCHANGED <<d3a, strategy, matching_data, call, pn, run, first>>

NextRoundTrip ==
    \/ Call
    \/ AcceptFloat
    \/ Match
    \/ Close
    \/ RecommendFloat
    \/ Return

SpecRoundTrip == InitRoundTrip /\ [][NextRoundTrip]_vars

\* ------------------------------------------------- running the call twice
\* A second call on the same matching_data, once the first has ended.
Rerun ==
    /\ call \in {"returned", "raised"}
    /\ run = 1
    /\ first' = [call |-> call, recommendations |-> recommendations]
    /\ run' = 2
    /\ call' = "ready"
    /\ pn' = NoNetwork
    /\ cursor' = 1
    /\ work' = NoWork(Pairs)
    /\ recommendations' = <<>>
    /\ UNCHANGED <<d3a, strategy, matching_data>>

NextTwice == Next \/ Rerun

SpecTwice == Init /\ [][NextTwice]_vars

\* ------------------------------------------------------- parallel workers
\* Section 5 of the specification: the pairs of a batch may be cleared by
\* independent workers, each producing its sub-list; the sub-lists are
\* concatenated afterwards in the order of the input.
WellFormed(md) == \A k \in 1 .. Len(PairsOf(md)) : ~RaisesKeyError(PairsOf(md)[k].orders)

InitWorkers == InitWith({md \in MultiBatches : WellFormed(md)})

WorkerAccepts == \E k \in 1 .. NPairs : Accept(k)
WorkerMatches == \E k \in 1 .. NPairs : MatchStepOf(k, "match")
WorkerSkips == \E k \in 1 .. NPairs : MatchStepOf(k, "skip")
WorkerCloses == \E k \in 1 .. NPairs : MatchStepOf(k, "close")

\* A worker is done with its pair: its sub-list is kept with the pair.
WorkerFinishes ==
    \E k \in 1 .. NPairs :
        /\ call = "running"
        /\ work[k].pc = "matched"
        /\ work' = [work EXCEPT
                       ![k].pc = "done",
                       ![k].sub = generate_recommendations(
                                      Pairs[k].market_id, Pairs[k].time,
                                      Pairs[k].orders.bids, Pairs[k].orders.offers,
                                      work[k].m.matches)]
        /\ UNCHANGED <<d3a, strategy, matching_data, call, pn, cursor, recommendations, run, first>>

RECURSIVE Concat(_, _)
Concat(w, n) == IF n = 0 THEN <<>> ELSE Concat(w, n - 1) \o w[n].sub

\* All workers are done: the sub-lists are concatenated in input order.
Gather ==
    /\ call = "running"
    /\ \A k \in 1 .. NPairs : work[k].pc = "done"
    /\ recommendations' = Concat(work, NPairs)
    /\ call' = "returned"
    /\ UNCHANGED <<d3a, strategy, matching_data, pn, cursor, work, run, first>>

NextWorkers ==
    \/ Call
    \/ WorkerAccepts
    \/ WorkerMatches
    \/ WorkerSkips
    \/ WorkerCloses
    \/ WorkerFinishes
    \/ Gather

SpecWorkers == InitWorkers /\ [][NextWorkers]_vars

\* ------------------------------------------------ the loop as a function
\* The body of the nested loops for one pair, run to its end on the network
\* net: the network it leaves and the sub-list it adds.
ClearPair(strat, net, pair) ==
    LET given == IF strat = "cluster"
                 THEN add_actors_map(net, map_actors(ActorsOf(pair.orders)))
                 ELSE net
        m == match(strat, given, accept_orders(market(pair.time), pair.time, pair.orders))
    IN  [net |-> given,
         recs |-> generate_recommendations(pair.market_id, pair.time, pair.orders.bids,
                                           pair.orders.offers, m.matches)]

\* get_market_matches over the first n pairs, from the network net.
RECURSIVE get_market_matches(_, _, _, _)
get_market_matches(strat, net, pairs, n) ==
    IF n = 0 THEN [net |-> net, recs |-> <<>>]
    ELSE LET before == get_market_matches(strat, net, pairs, n - 1)
             this == ClearPair(strat, before.net, pairs[n])
         IN  [net |-> this.net, recs |-> before.recs \o this.recs]

\* ------------------------------------------------------------------ claims
\* The pairs whose orders have been accepted by a market.
Accepted == {k \in 1 .. NPairs : work[k].pc # "new"}
\* The pairs whose clearing has terminated.
Cleared == {k \in 1 .. NPairs : work[k].pc \in {"matched", "done"}}
Finished == {k \in 1 .. NPairs : work[k].pc = "done"}

\* The internal energy an order of external energy e starts with.
OriginalEnergy(e) ==
    IF e * ENERGY_UNIT_CONVERSION_FACTOR > MaxInternal
    THEN MaxInternal
    ELSE e * ENERGY_UNIT_CONVERSION_FACTOR

RECURSIVE TradedOf(_, _, _, _)
\* The energy of the first n matches that reference order id on a side.
TradedOf(matches, side, id, n) ==
    IF n = 0 THEN 0
    ELSE TradedOf(matches, side, id, n - 1) +
         (IF (IF side = "bid" THEN matches[n].bid_id ELSE matches[n].ask_id) = id
          THEN matches[n].energy ELSE 0)

BidsOf(k) == Pairs[k].orders.bids
OffersOf(k) == Pairs[k].orders.offers
MatchesOf(k) == work[k].m.matches

\* C1: under every strategy, the traded energy of all matches that reference
\* a bid never exceeds the original internal energy of that bid, and the same
\* holds for every offer.  (An order that no match references has no sum.)
C1_EnergyConservation ==
    \A k \in Accepted :
        /\ \A i \in 1 .. Len(BidsOf(k)) :
              (\E n \in 1 .. Len(MatchesOf(k)) : MatchesOf(k)[n].bid_id = BidsOf(k)[i].id)
                  => TradedOf(MatchesOf(k), "bid", BidsOf(k)[i].id, Len(MatchesOf(k)))
                        <= OriginalEnergy(BidsOf(k)[i].energy)
        /\ \A i \in 1 .. Len(OffersOf(k)) :
              (\E n \in 1 .. Len(MatchesOf(k)) : MatchesOf(k)[n].ask_id = OffersOf(k)[i].id)
                  => TradedOf(MatchesOf(k), "ask", OffersOf(k)[i].id, Len(MatchesOf(k)))
                        <= OriginalEnergy(OffersOf(k)[i].energy)

\* A clamped bid is filled entirely by two matches.
C1_Witness ==
    \E k \in Cleared :
        \E i \in 1 .. Len(BidsOf(k)) :
            /\ Len(MatchesOf(k)) = 2
            /\ MatchesOf(k)[1].bid_id = BidsOf(k)[i].id
            /\ MatchesOf(k)[2].bid_id = BidsOf(k)[i].id
            /\ BidsOf(k)[i].energy * ENERGY_UNIT_CONVERSION_FACTOR > MaxInternal
            /\ TradedOf(MatchesOf(k), "bid", BidsOf(k)[i].id, 2)
                   = OriginalEnergy(BidsOf(k)[i].energy)

\* C2: under pay-as-bid every recommendation trades at the rate of its bid,
\* and that rate is at least the rate of its offer.
C2_PayAsBidPrice ==
    strategy = "pay_as_bid" =>
        \A i \in 1 .. Len(recommendations) :
            /\ recommendations[i].trade_rate = recommendations[i].bid.energy_rate
            /\ recommendations[i].bid.energy_rate >= recommendations[i].offer.energy_rate

\* Pay-as-bid returned two recommendations of different rates, one of them
\* above the rate of its offer.
C2_Witness ==
    /\ strategy = "pay_as_bid"
    /\ call = "returned"
    /\ Len(recommendations) = 2
    /\ recommendations[1].trade_rate # recommendations[2].trade_rate
    /\ recommendations[1].bid.energy_rate > recommendations[1].offer.energy_rate

\* C3: under pay-as-clear all recommendations of one (market, slot) carry the
\* same rate; it lies between the lowest matched offer rate and the highest
\* matched bid rate, no matched bid is below it and no matched offer above it.
C3_UniformPrice ==
    strategy = "pay_as_clear" =>
        \A k \in Finished :
            LET sub == work[k].sub
                I == 1 .. Len(sub)
            IN  /\ \A i, j \in I : sub[i].trade_rate = sub[j].trade_rate
                /\ \A i \in I :
                      /\ \E j \in I : sub[j].offer.energy_rate <= sub[i].trade_rate
                      /\ \E j \in I : sub[j].bid.energy_rate >= sub[i].trade_rate
                      /\ sub[i].bid.energy_rate >= sub[i].trade_rate
                      /\ sub[i].offer.energy_rate <= sub[i].trade_rate

\* Pay-as-clear matched two bids of different rates in one slot.
C3_Witness ==
    /\ strategy = "pay_as_clear"
    /\ \E k \in Finished :
          /\ Len(work[k].sub) >= 2
          /\ work[k].sub[1].bid.energy_rate # work[k].sub[2].bid.energy_rate

\* The node an input order is on: its cluster tag, the default node without.
InputNode(o) ==
    IF HasKey(o, "attributes") /\ HasKey(o.attributes, "cluster")
    THEN o.attributes.cluster
    ELSE DefaultNode

\* Two input orders whose nodes the topology predicate rejects.
Rejected(bid, offer, energy) ==
    ~can_trade(pn, InputNode(bid), InputNode(offer), energy)

\* C4: under cluster-fair matching no recommendation pairs a bid and an offer
\* whose nodes the topology predicate rejects; a bid and an offer on two
\* different nodes that are not adjacent share no match, crossing or not.
C4_TopologyRespect ==
    strategy = "cluster" =>
        /\ \A i \in 1 .. Len(recommendations) :
              ~Rejected(recommendations[i].bid, recommendations[i].offer,
                        recommendations[i].selected_energy.num)
        /\ \A k \in Accepted :
              \A i \in 1 .. Len(BidsOf(k)), j \in 1 .. Len(OffersOf(k)) :
                  Rejected(BidsOf(k)[i], OffersOf(k)[j], 1) =>
                      \A n \in 1 .. Len(MatchesOf(k)) :
                          ~(/\ MatchesOf(k)[n].bid_id = BidsOf(k)[i].id
                            /\ MatchesOf(k)[n].ask_id = OffersOf(k)[j].id)

\* Cluster-fair matching ended a slot without a match although a bid and an
\* offer of positive energy on two different nodes cross.
C4_Witness ==
    /\ strategy = "cluster"
    /\ \E k \in Finished :
          /\ work[k].sub = <<>>
          /\ \E i \in 1 .. Len(BidsOf(k)), j \in 1 .. Len(OffersOf(k)) :
                /\ InputNode(BidsOf(k)[i]) # InputNode(OffersOf(k)[j])
                /\ Rejected(BidsOf(k)[i], OffersOf(k)[j], 1)
                /\ BidsOf(k)[i].energy > 0
                /\ OffersOf(k)[j].energy > 0
                /\ BidsOf(k)[i].energy_rate >= OffersOf(k)[j].energy_rate

\* What an order of pair k has left after the first n matches.
LeftOf(k, side, id, n) ==
    OriginalEnergy(ById(IF side = "bid" THEN BidsOf(k) ELSE OffersOf(k), id).energy)
        - TradedOf(MatchesOf(k), side, id, n)

\* The match a step adds for pair k is positive and within what its bid and
\* its offer have left after the earlier matches.
C5_Step(k) ==
    Len(work'[k].m.matches) = Len(MatchesOf(k)) + 1 =>
        LET n == Len(MatchesOf(k))
            new == work'[k].m.matches[n + 1]
        IN  /\ 0 < new.energy
            /\ new.energy <= LeftOf(k, "bid", new.bid_id, n)
            /\ new.energy <= LeftOf(k, "ask", new.ask_id, n)

\* C5: under every strategy, a match is produced with a positive energy of at
\* most what its bid and its offer have left at that moment: their original
\* energy less the energy of the earlier matches of the same clearing.
C5_TradedWithinRemaining == [][\A k \in 1 .. NPairs : C5_Step(k)]_vars

\* The second match of a slot took the rest of an offer that the first match
\* had filled in part.
C5_Witness ==
    \E k \in Accepted :
        /\ Len(MatchesOf(k)) = 2
        /\ MatchesOf(k)[1].ask_id = MatchesOf(k)[2].ask_id
        /\ MatchesOf(k)[2].energy = LeftOf(k, "ask", MatchesOf(k)[2].ask_id, 1)
        /\ MatchesOf(k)[2].energy < LeftOf(k, "bid", MatchesOf(k)[2].bid_id, 1)

\* A bid and an offer of pair k that are both unfilled and cross.
CrossingLeft(k) ==
    \E i \in 1 .. Len(BidsOf(k)), j \in 1 .. Len(OffersOf(k)) :
        /\ LeftOf(k, "bid", BidsOf(k)[i].id, Len(MatchesOf(k))) > 0
        /\ LeftOf(k, "ask", OffersOf(k)[j].id, Len(MatchesOf(k))) > 0
        /\ BidsOf(k)[i].energy_rate >= OffersOf(k)[j].energy_rate

\* C6: when pay-as-bid has terminated for a slot, no unfilled bid and
\* unfilled offer of the slot cross.
C6_PayAsBidTermination ==
    strategy = "pay_as_bid" => \A k \in Cleared : ~CrossingLeft(k)

\* Pay-as-bid terminated after a match with an unfilled bid and an unfilled
\* offer left over.
C6_Witness ==
    /\ strategy = "pay_as_bid"
    /\ \E k \in Cleared :
          /\ Len(MatchesOf(k)) >= 1
          /\ \E i \in 1 .. Len(BidsOf(k)) :
                LeftOf(k, "bid", BidsOf(k)[i].id, Len(MatchesOf(k))) > 0
          /\ \E j \in 1 .. Len(OffersOf(k)) :
                LeftOf(k, "ask", OffersOf(k)[j].id, Len(MatchesOf(k))) > 0

FreshNetwork == [pn EXCEPT !.actors = <<>>]

\* What the sequential loop produces for the first n pairs.
Sequential(n) == get_market_matches(strategy, FreshNetwork, Pairs, n)

\* The position in Pairs of the pair a recommendation names.
PairIndex(rec) ==
    CHOOSE k \in 1 .. NPairs :
        Pairs[k].market_id = rec.market_id /\ Pairs[k].time = rec.time_slot

\* C8: the recommendations come in the iteration order of the input, markets
\* first and the slots of each market next; workers that clear the pairs in
\* any interleaving produce, pair by pair and in the concatenation, what the
\* sequential loop produces.
C8_OrderIndependent ==
    /\ \A k \in Finished :
          work[k].sub = ClearPair(strategy, Sequential(k - 1).net, Pairs[k]).recs
    /\ call = "returned" =>
          /\ recommendations = Sequential(NPairs).recs
          /\ \A i, j \in 1 .. Len(recommendations) :
                i < j => PairIndex(recommendations[i]) <= PairIndex(recommendations[j])

\* The worker of the second pair is done, with a recommendation, before the
\* worker of the first pair has begun; the order book of the first pair
\* crosses.
C8_Witness ==
    /\ NPairs = 2
    /\ work[1].pc = "new"
    /\ work[2].pc = "done"
    /\ Len(work[2].sub) >= 1
    /\ Len(ClearPair(strategy, FreshNetwork, Pairs[1]).recs) >= 1

\* The recommendations of pair k when it is cleared alone.
Alone(k) == ClearPair(strategy, FreshNetwork, Pairs[k]).recs

\* The ids under which pair k registers its actors.
OwnKeys(k) ==
    {BidsOf(k)[i].id : i \in 1 .. Len(BidsOf(k))} \cup
    {OffersOf(k)[j].id : j \in 1 .. Len(OffersOf(k))}

\* The market of pair k resolves an agent through an entry of the actor map
\* that another pair has written.
CarriedRead(k) ==
    \E side \in {work[k].m.bids, work[k].m.asks} :
        \E i \in 1 .. Len(side) :
            /\ side[i].order.cluster = None
            /\ side[i].order.actor_id \in DOMAIN pn.actors
            /\ side[i].order.actor_id \notin OwnKeys(k)

C10_BatchContinues == call # "raised"

\* C10 as amended: an order that lacks a required key is not excluded; the
\* KeyError of its pair ends the whole call, which returns nothing: a call
\* returns only when no order of the batch lacks a key, and a call that has
\* raised stands at the first pair with such an order.
C10_MalformedAborts ==
    /\ call = "returned" => WellFormed(matching_data)
    /\ call = "raised" =>
          /\ cursor <= NPairs
          /\ RaisesKeyError(Pairs[cursor].orders)
          /\ \A k \in 1 .. (cursor - 1) : ~RaisesKeyError(Pairs[k].orders)
    /\ (call = "running" /\ cursor <= NPairs /\ work[cursor].pc # "new") =>
          ~RaisesKeyError(Pairs[cursor].orders)

\* The call has raised at its second pair, after the first pair had added
\* a recommendation.
C10_Witness ==
    /\ call = "raised"
    /\ cursor = 2
    /\ Len(recommendations) >= 1

Faulty(k) == RefersUnknown(Pairs[k].orders, work[k].m.matches)

\* C12: a match that names an order id unknown to its slot is not swallowed,
\* and it ends the whole call: no recommendation is built from the slot, the
\* call never returns, and no pair after it is ever started.
C12_UnknownIdAborts ==
    \A k \in 1 .. NPairs :
        Faulty(k) =>
            /\ k = cursor
            /\ work[k].pc = "matched"
            /\ call # "returned"
            /\ \A j \in 1 .. NPairs : j > k => work[j].pc = "new"

\* C12 as stated: the unknown id aborts its own slot only, so that once the
\* call has ended every other pair of a well-formed batch has produced its
\* recommendations.
C12_OnlySlotAborts ==
    (/\ call \in {"returned", "raised"}
     /\ WellFormed(matching_data))
        => \A k \in 1 .. NPairs : ~Faulty(k) => work[k].pc = "done"

\* The call raised on an unknown id in the first of two slots; the second,
\* whose orders cross, was never started.
C12_Witness ==
    /\ call = "raised"
    /\ NPairs = 2
    /\ cursor = 1
    /\ Faulty(1)
    /\ work[2].pc = "new"
    /\ WellFormed(matching_data)
    /\ Alone(2) # <<>>

\* C13: the energy of every order handed to the strategy is its external
\* energy times 1000, cut at the clamp: bids first, offers after, in list
\* order.  It never exceeds the clamp, and an order whose energy times 1000
\* is beyond the clamp is kept in the book with the clamp as its energy.
C13_Clamp ==
    \A k \in Accepted :
        LET m == work[k].m
            nb == Len(BidsOf(k))
            internal(e) ==
                IF e * ENERGY_UNIT_CONVERSION_FACTOR <= MaxInternal
                THEN e * ENERGY_UNIT_CONVERSION_FACTOR
                ELSE MaxInternal
        IN  /\ \A i \in 1 .. nb :
                  /\ m.received[i].id = BidsOf(k)[i].id
                  /\ m.received[i].order.energy = internal(BidsOf(k)[i].energy)
                  /\ m.received[i].order.energy <= MaxInternal
                  /\ BidsOf(k)[i].energy * ENERGY_UNIT_CONVERSION_FACTOR > MaxInternal
                        => \E j \in 1 .. Len(m.bids) :
                              /\ m.bids[j].id = BidsOf(k)[i].id
                              /\ m.bids[j].order.energy = MaxInternal
            /\ \A i \in 1 .. Len(OffersOf(k)) :
                  /\ m.received[nb + i].id = OffersOf(k)[i].id
                  /\ m.received[nb + i].order.energy = internal(OffersOf(k)[i].energy)
                  /\ m.received[nb + i].order.energy <= MaxInternal
                  /\ OffersOf(k)[i].energy * ENERGY_UNIT_CONVERSION_FACTOR > MaxInternal
                        => \E j \in 1 .. Len(m.asks) :
                              /\ m.asks[j].id = OffersOf(k)[i].id
                              /\ m.asks[j].order.energy = MaxInternal

\* A slot was accepted in which one bid is beyond the clamp and one below it,
\* and an offer beyond the clamp is in the book.
C13_Witness ==
    \E k \in Accepted :
        /\ \E i \in 1 .. Len(BidsOf(k)) :
              BidsOf(k)[i].energy * ENERGY_UNIT_CONVERSION_FACTOR > MaxInternal
        /\ \E i \in 1 .. Len(BidsOf(k)) :
              /\ BidsOf(k)[i].energy > 0
              /\ BidsOf(k)[i].energy * ENERGY_UNIT_CONVERSION_FACTOR < MaxInternal
        /\ \E j \in 1 .. Len(work[k].m.asks) :
              /\ work[k].m.asks[j].order.energy = MaxInternal
              /\ work[k].m.asks[j].left = MaxInternal

\* C14: selected_energy is the energy of the match / 1000 as a float, within
\* the rounding of one float of the quotient; for a bid and an offer of the
\* same integer energy e that a float holds exactly (e <= 2 ^ MantissaBits),
\* not cut by the clamp and matched in full in one match, selected_energy is
\* e again.
C14_RoundTripUpToFloat ==
    \A k \in Finished :
        /\ Len(work[k].sub) = Len(MatchesOf(k))
        /\ \A i \in 1 .. Len(work[k].sub) :
              LET rec == work[k].sub[i]
                  sel == rec.selected_energy
                  n == MatchesOf(k)[i].energy
                  diff == sel.num * ENERGY_UNIT_CONVERSION_FACTOR - n * sel.den
                  e == rec.bid.energy
              IN  /\ diff * 2 ^ MantissaBits <= n * sel.den
                  /\ (0 - diff) * 2 ^ MantissaBits <= n * sel.den
                  /\ (/\ e = rec.offer.energy
                      /\ e * ENERGY_UNIT_CONVERSION_FACTOR <= FloatClamp
                      /\ e <= 2 ^ MantissaBits
                      /\ n = to_internal(e))
                        => sel.num = e * sel.den

\* C14 as stated: the round trip is the identity for every energy that the
\* clamp does not cut.
C14_RoundTripIdentity ==
    \A k \in Finished :
        \A i \in 1 .. Len(work[k].sub) :
            LET rec == work[k].sub[i]
            IN  (/\ rec.bid.energy = rec.offer.energy
                 /\ rec.bid.energy * ENERGY_UNIT_CONVERSION_FACTOR <= FloatClamp
                 /\ MatchesOf(k)[i].energy = to_internal(rec.bid.energy))
                   => rec.selected_energy.num
                         = rec.bid.energy * rec.selected_energy.den

\* The call returned one recommendation for a bid and an offer of energy 3,
\* matched in full: the quotient 3000 / 1000 comes back as the float 3, with
\* a denominator of more than one.
C14_Witness ==
    /\ call = "returned"
    /\ Len(recommendations) = 1
    /\ recommendations[1].bid.energy = 3
    /\ recommendations[1].offer.energy = 3
    /\ MatchesOf(1)[1].energy = 3 * ENERGY_UNIT_CONVERSION_FACTOR
    /\ recommendations[1].selected_energy.den > 1
    /\ recommendations[1].selected_energy.num = 3 * recommendations[1].selected_energy.den

\* C15: every recommendation carries the market_id and the time slot of the
\* pair it was built for, its bid and its offer are whole input entries of
\* that pair's book, the ones with the ids of its match, and every
\* recommendation of the call is one of some pair.
C15_SamePair ==
    /\ \A k \in Finished :
          /\ Len(work[k].sub) = Len(MatchesOf(k))
          /\ \A i \in 1 .. Len(work[k].sub) :
                LET rec == work[k].sub[i]
                IN  /\ rec.market_id = Pairs[k].market_id
                    /\ rec.time_slot = Pairs[k].time
                    /\ \E j \in 1 .. Len(BidsOf(k)) : rec.bid = BidsOf(k)[j]
                    /\ \E j \in 1 .. Len(OffersOf(k)) : rec.offer = OffersOf(k)[j]
                    /\ rec.bid.id = MatchesOf(k)[i].bid_id
                    /\ rec.offer.id = MatchesOf(k)[i].ask_id
    /\ \A n \in 1 .. Len(recommendations) :
          \E k \in Finished : \E i \in 1 .. Len(work[k].sub) :
              recommendations[n] = work[k].sub[i]

\* The call returned recommendations for two pairs that differ in market or
\* in time slot.
C15_Witness ==
    /\ call = "returned"
    /\ NPairs = 2
    /\ work[1].sub # <<>>
    /\ work[2].sub # <<>>
    /\ \/ Pairs[1].market_id # Pairs[2].market_id
       \/ Pairs[1].time # Pairs[2].time
    /\ recommendations[1].time_slot # recommendations[Len(recommendations)].time_slot

RECURSIVE CumulativeOf(_, _, _, _)
\* Cumulative demand at rate r (the energy of the first n bids of the list
\* with a rate of r or more) and cumulative supply at r (offers, r or less).
CumulativeOf(list, side, r, n) ==
    IF n = 0 THEN 0
    ELSE CumulativeOf(list, side, r, n - 1) +
         (IF /\ list[n].energy > 0
             /\ IF side = "bid" THEN list[n].energy_rate >= r
                                ELSE list[n].energy_rate <= r
          THEN OriginalEnergy(list[n].energy) ELSE 0)

Demand(k, r) == CumulativeOf(BidsOf(k), "bid", r, Len(BidsOf(k)))
Supply(k, r) == CumulativeOf(OffersOf(k), "offer", r, Len(OffersOf(k)))

\* The quantity that can trade at rate r.
Tradable(k, r) == Min(Demand(k, r), Supply(k, r))

\* The rates of the orders of pair k.
RatesOf(k) ==
    {BidsOf(k)[i].energy_rate : i \in 1 .. Len(BidsOf(k))}
        \cup {OffersOf(k)[i].energy_rate : i \in 1 .. Len(OffersOf(k))}

RECURSIVE TotalOf(_, _)
\* The energy of the first n matches.
TotalOf(matches, n) ==
    IF n = 0 THEN 0 ELSE TotalOf(matches, n - 1) + matches[n].energy

TopologyRejects(k) ==
    /\ strategy = "cluster"
    /\ work[k].pc = "matching"
    /\ LET m == work[k].m
           pair == NextPair(strategy, m)
       IN  /\ pair # <<0, 0>>
           /\ m.bids[pair[1]].left > 0
           /\ m.asks[pair[2]].left > 0
           /\ Crosses(m, pair)
           /\ ~Eligible(strategy, pn, m, pair)

\* The step taken on such a pair changes no order and no match and leaves
\* the strategy running, on the next candidate.
C17_Step(k) ==
    (TopologyRejects(k) /\ work'[k] # work[k]) =>
        /\ work'[k].m.bids = work[k].m.bids
        /\ work'[k].m.asks = work[k].m.asks
        /\ work'[k].m.matches = work[k].m.matches
        /\ work'[k].m.cand = work[k].m.cand + 1
        /\ ~work'[k].m.closed
        /\ work'[k].pc = "matching"

\* Cluster-fair matching has left no bid and offer of pair k that both have
\* energy left, cross and are accepted by the topology.
NoCompatibleLeft(k) ==
    \A i \in 1 .. Len(BidsOf(k)), j \in 1 .. Len(OffersOf(k)) :
        LET n == Len(MatchesOf(k))
        IN  ~(/\ BidsOf(k)[i].energy > 0
              /\ OffersOf(k)[j].energy > 0
              /\ LeftOf(k, "bid", BidsOf(k)[i].id, n) > 0
              /\ LeftOf(k, "ask", OffersOf(k)[j].id, n) > 0
              /\ BidsOf(k)[i].energy_rate >= OffersOf(k)[j].energy_rate
              /\ ~Rejected(BidsOf(k)[i], OffersOf(k)[j], 1))

\* C17: under cluster-fair matching a candidate pair that the topology
\* rejects is skipped: no order loses energy, no match is added, and the
\* strategy goes on with the next candidate; it ends only when no bid and
\* offer are left that cross and that the topology accepts, so a bid whose
\* best-priced offer is rejected is matched with a compatible worse-priced one.
C17_SkipContinues ==
    [][/\ \A k \in 1 .. NPairs : C17_Step(k)
       /\ strategy' = "cluster" =>
             \A k \in 1 .. NPairs :
                 work'[k].pc \in {"matched", "done"} => NoCompatibleLeft(k)']_vars

\* A bid without a cluster tag, its best-priced offer on another node and
\* rejected, a worse-priced offer on the bid's node: the slot ended with the
\* bid matched with the second offer and no match with the first.
C17_Witness ==
    /\ strategy = "cluster"
    /\ \E k \in Cleared :
          \E i \in 1 .. Len(BidsOf(k)), j1, j2 \in 1 .. Len(OffersOf(k)) :
              /\ OffersOf(k)[j1].energy_rate < OffersOf(k)[j2].energy_rate
              /\ OffersOf(k)[j2].energy_rate <= BidsOf(k)[i].energy_rate
              /\ OffersOf(k)[j1].energy > 0
              /\ Rejected(BidsOf(k)[i], OffersOf(k)[j1], 1)
              /\ ~Rejected(BidsOf(k)[i], OffersOf(k)[j2], 1)
              /\ \E n \in 1 .. Len(MatchesOf(k)) :
                    /\ MatchesOf(k)[n].bid_id = BidsOf(k)[i].id
                    /\ MatchesOf(k)[n].ask_id = OffersOf(k)[j2].id
              /\ \A n \in 1 .. Len(MatchesOf(k)) :
                    MatchesOf(k)[n].ask_id # OffersOf(k)[j1].id

\* The agents of the orders of pair k: the buyer of each bid, the seller of
\* each offer.
AgentsOf(k) ==
    {BidsOf(k)[i].buyer : i \in 1 .. Len(BidsOf(k))}
        \cup {OffersOf(k)[i].seller : i \in 1 .. Len(OffersOf(k))}

\* C18: in cluster-fair matching the actor-to-node map that the runner has
\* registered when match() runs holds every agent of the slot's orders, each
\* on a node of the network.
C18_AgentsInMap ==
    strategy = "cluster" =>
        \A k \in Accepted :
            work[k].pc = "matching" =>
                \A a \in AgentsOf(k) :
                    /\ a \in DOMAIN pn.actors
                    /\ pn.actors[a] \in pn.nodes

\* The orders of pair k carry their keys and never cross: a list is empty or
\* every bid rate is below every offer rate.
NeverCross(k) ==
    /\ ~RaisesKeyError(Pairs[k].orders)
    /\ \/ BidsOf(k) = <<>>
       \/ OffersOf(k) = <<>>
       \/ \A i \in 1 .. Len(BidsOf(k)), j \in 1 .. Len(OffersOf(k)) :
              BidsOf(k)[i].energy_rate < OffersOf(k)[j].energy_rate

\* C19: a slot whose orders never cross ends without a match, without a
\* recommendation and without an error, under every strategy; the other
\* slots have the recommendations they have when cleared alone, and the call
\* returns the lists of all slots, in order.
C19_NoCrossing ==
    \A k \in 1 .. NPairs :
        NeverCross(k) =>
            /\ ~(call = "raised" /\ cursor = k)
            /\ k \in Cleared => MatchesOf(k) = <<>>
            /\ k \in Finished =>
                  /\ work[k].sub = <<>>
                  /\ \A j \in Finished : work[j].sub = Alone(j)
            /\ call = "returned" => recommendations = Concat(work, NPairs)

\* The call returned; one slot had a bid and an offer of positive energy that
\* do not cross and gave nothing, another slot gave a recommendation.
C19_Witness ==
    /\ call = "returned"
    /\ \E k, j \in 1 .. NPairs :
          /\ NeverCross(k)
          /\ BidsOf(k) # <<>>
          /\ OffersOf(k) # <<>>
          /\ BidsOf(k)[1].energy > 0
          /\ OffersOf(k)[1].energy > 0
          /\ work[k].sub = <<>>
          /\ work[j].sub # <<>>
          /\ recommendations = work[j].sub

\* The ids of the entries of a list, in order.
IdsOf(list) == [i \in 1 .. Len(list) |-> list[i].id]

\* Of two orders of one side of pair k with the same rate, the later one in
\* the input list has traded only if the earlier one is filled.
EarlierFirst(k, side, i, j) ==
    LET list == IF side = "bid" THEN BidsOf(k) ELSE OffersOf(k)
        n == Len(MatchesOf(k))
    IN  (/\ i < j
         /\ list[i].energy_rate = list[j].energy_rate
         /\ list[i].energy > 0
         /\ TradedOf(MatchesOf(k), side, list[j].id, n) > 0)
            => LeftOf(k, side, list[i].id, n) = 0

C21_Step(k) ==
    Len(work'[k].m.matches) = Len(MatchesOf(k)) + 1 =>
        LET n == Len(MatchesOf(k))
            new == work'[k].m.matches[n + 1]
            bidLeft == LeftOf(k, "bid", new.bid_id, n)
            askLeft == LeftOf(k, "ask", new.ask_id, n)
        IN  /\ bidLeft > 0
            /\ askLeft > 0
            /\ new.energy = Min(bidLeft, askLeft)
            /\ bidLeft - new.energy = 0 \/ askLeft - new.energy = 0

NoCall ==
    /\ strategy = "pay_as_bid"
    /\ matching_data = <<>>
    /\ call = "none"
    /\ pn = NoNetwork
    /\ cursor = 1
    /\ work = <<>>
    /\ recommendations = <<>>
    /\ run = 1
    /\ first = NoOutcome

\* The upper end of a limit of ConstSettings. The limits are defined in
\* d3a_interface.constants_limits; the validator reads their .min and .max
\* (.initial and .final for MAX_ABS_POWER_RANGE). One small range stands for
\* each of them.
MaxLimit == 2
RangeLimit == [min |-> 0, max |-> MaxLimit]

\* "if not initial_limit <= value <= final_limit: raise": TRUE when the
\* function returns, FALSE when it raises D3ADeviceException.
validate_range_limit(initial_limit, value, final_limit) ==
    initial_limit <= value /\ value <= final_limit

\* '"key" in kwargs and kwargs["key"] is not None', which is also
\* "kwargs.get(key) is not None" and key_in_dict_and_not_none(kwargs, key).
NotNone(kw, key) == HasKey(kw, key) /\ kw[key] # None

\* A key that is set and whose value validate_range_limit refuses.
OutOfLimit(kw, key) ==
    NotNone(kw, key)
        /\ ~validate_range_limit(RangeLimit.min, kw[key], RangeLimit.max)

\* The tests between two keys: both set, and the comparison of the code.
SocBelowMin(kw) ==
    /\ NotNone(kw, "initial_soc")
    /\ NotNone(kw, "min_allowed_soc")
    /\ kw["initial_soc"] < kw["min_allowed_soc"]

SellingRateRises(kw) ==
    /\ NotNone(kw, "initial_selling_rate")
    /\ NotNone(kw, "final_selling_rate")
    /\ kw["initial_selling_rate"] < kw["final_selling_rate"]

BuyingRateFalls(kw) ==
    /\ NotNone(kw, "initial_buying_rate")
    /\ NotNone(kw, "final_buying_rate")
    /\ kw["initial_buying_rate"] > kw["final_buying_rate"]

\* A variant of BuyingAboveSelling with the comparison the other way round.
SellingAboveBuying(kw) ==
    /\ NotNone(kw, "final_selling_rate")
    /\ NotNone(kw, "final_buying_rate")
    /\ kw["final_buying_rate"] < kw["final_selling_rate"]

BuyingAboveSelling(kw) ==
    /\ NotNone(kw, "final_selling_rate")
    /\ NotNone(kw, "final_buying_rate")
    /\ kw["final_buying_rate"] > kw["final_selling_rate"]

\* 'kwargs.get("fit_to_limit") is True and (increase is not None or
\* decrease is not None)'.
FitWithUpdates(kw) ==
    /\ HasKey(kw, "fit_to_limit") /\ kw["fit_to_limit"] = TRUE
    /\ \/ NotNone(kw, "energy_rate_increase_per_update")
       \/ NotNone(kw, "energy_rate_decrease_per_update")

\* 'kwargs.get("fit_to_limit") is False and (increase is None or decrease
\* is None)'.
NoFitWithoutUpdates(kw) ==
    /\ HasKey(kw, "fit_to_limit") /\ kw["fit_to_limit"] = FALSE
    /\ \/ ~NotNone(kw, "energy_rate_increase_per_update")
       \/ ~NotNone(kw, "energy_rate_decrease_per_update")

\* loss_per_hour is tested only under a loss_function that is set and within
\* its limit: against the relative limit when loss_function == 1, against
\* the absolute limit otherwise.
LossPerHourOutOfLimit(kw) ==
    /\ NotNone(kw, "loss_function")
    /\ NotNone(kw, "loss_per_hour")
    /\ IF kw["loss_function"] = 1
       THEN ~validate_range_limit(RangeLimit.min, kw["loss_per_hour"], RangeLimit.max)
       ELSE ~validate_range_limit(RangeLimit.min, kw["loss_per_hour"], RangeLimit.max)

\* The tests of validate_storage_device in the order of the code, each with
\* the head of the message of its exception.
StorageTests(kw) ==
    << [raises |-> OutOfLimit(kw, "initial_soc"),
        message |-> "initial_soc should be in between"],
       [raises |-> OutOfLimit(kw, "min_allowed_soc"),
        message |-> "min_allowed_soc should be in between"],
       [raises |-> SocBelowMin(kw),
        message |-> "initial_soc should be greater than or equal to min_allowed_soc."],
       [raises |-> OutOfLimit(kw, "battery_capacity_kWh"),
        message |-> "battery_capacity_kWh should be in between"],
       [raises |-> OutOfLimit(kw, "max_abs_battery_power_kW"),
        message |-> "max_abs_battery_power_kW should be in between"],
       [raises |-> OutOfLimit(kw, "initial_selling_rate"),
        message |-> "initial_selling_rate should be in between"],
       [raises |-> OutOfLimit(kw, "final_selling_rate"),
        message |-> "final_selling_rate should be in between"],
       [raises |-> SellingRateRises(kw),
        message |-> "initial_selling_rate should be greater than or equal to final_selling_rate."],
       [raises |-> OutOfLimit(kw, "initial_buying_rate"),
        message |-> "initial_buying_rate should be in between"],
       [raises |-> OutOfLimit(kw, "final_buying_rate"),
        message |-> "final_buying_rate should be in between"],
       [raises |-> BuyingRateFalls(kw),
        message |-> "initial_buying_rate should be less than or equal to final_buying_rate."],
       [raises |-> BuyingAboveSelling(kw),
        message |-> "final_buying_rate should be less than or equal to final_selling_rate."],
       [raises |-> OutOfLimit(kw, "energy_rate_increase_per_update"),
        message |-> "energy_rate_increase_per_update should be in between"],
       [raises |-> OutOfLimit(kw, "energy_rate_decrease_per_update"),
        message |-> "energy_rate_decrease_per_update should be in between"],
       [raises |-> FitWithUpdates(kw),
        message |-> "fit_to_limit & energy_rate_increase/decrease_per_update can't be set together."],
       [raises |-> NoFitWithoutUpdates(kw),
        message |-> "energy_rate_increase/decrease_per_update must be set if fit_to_limit is False."],
       [raises |-> OutOfLimit(kw, "loss_function"),
        message |-> "loss_function should either be"],
       [raises |-> LossPerHourOutOfLimit(kw),
        message |-> "loss_per_hour should be in between"] >>

\* validate_storage_device(**kwargs): "accepted" when the function returns,
\* else the message of the first test that raises.
validate_storage_device(kw) ==
    LET tests == StorageTests(kw)
        raising == {i \in 1 .. Len(tests) : tests[i].raises}
    IN  IF raising = {} THEN "accepted"
        ELSE tests[CHOOSE i \in raising : \A j \in raising : i <= j].message

\* The configurations: a key is absent, None or a number; fit_to_limit is
\* absent, True or False.
Opt(key, values) == {<<>>} \cup {key :> v : v \in values}
Numbers == 0 .. MaxLimit + 1
StorageRates == {None} \cup (1 .. MaxLimit + 1)

RateConfigs ==
    {ib @@ fb @@ fs @@ is @@ fit @@ inc @@ dec :
        ib \in Opt("initial_buying_rate", StorageRates),
        fb \in Opt("final_buying_rate", StorageRates),
        fs \in Opt("final_selling_rate", StorageRates),
        is \in Opt("initial_selling_rate", StorageRates),
        fit \in Opt("fit_to_limit", BOOLEAN),
        inc \in Opt("energy_rate_increase_per_update", {None, 1}),
        dec \in Opt("energy_rate_decrease_per_update", {None, 1})}

DeviceConfigs ==
    {soc @@ min @@ cap @@ pow @@ lf @@ lph :
        soc \in Opt("initial_soc", Numbers),
        min \in Opt("min_allowed_soc", {None, 1, MaxLimit + 1}),
        cap \in Opt("battery_capacity_kWh", {1, MaxLimit + 1}),
        pow \in Opt("max_abs_battery_power_kW", {1, MaxLimit + 1}),
        lf \in Opt("loss_function", 1 .. MaxLimit + 1),
        lph \in Opt("loss_per_hour", {1, MaxLimit + 1})}

StorageConfigs == RateConfigs \cup DeviceConfigs

InitValidator ==
    /\ NoCall
    /\ kwargs \in StorageConfigs
    /\ outcome = "pending"
    /\ assets_info = NoAssetsInfo
    /\ core_stats = <<>>

\* The call validate_storage_device(**kwargs).
Validate ==
    /\ outcome = "pending"
    /\ outcome' = validate_storage_device(kwargs)
    /\ UNCHANGED <<matching, kwargs, assets_info, core_stats>>

NextValidator == Validate

SpecValidator == InitValidator /\ [][NextValidator]_vars

\* C22: validate_storage_device accepts a configuration whose four rates are
\* all set only if initial_buying_rate <= final_buying_rate <=
\* final_selling_rate <= initial_selling_rate; with fit_to_limit True it
\* accepts only if both rates per update are None, and with fit_to_limit
\* False only if both are set.
C22_AcceptedOnlyIf ==
    outcome = "accepted" =>
        /\ (/\ NotNone(kwargs, "initial_buying_rate")
            /\ NotNone(kwargs, "final_buying_rate")
            /\ NotNone(kwargs, "final_selling_rate")
            /\ NotNone(kwargs, "initial_selling_rate"))
               => /\ kwargs["initial_buying_rate"] <= kwargs["final_buying_rate"]
                  /\ kwargs["final_buying_rate"] <= kwargs["final_selling_rate"]
                  /\ kwargs["final_selling_rate"] <= kwargs["initial_selling_rate"]
        /\ (HasKey(kwargs, "fit_to_limit") /\ kwargs["fit_to_limit"] = TRUE)
               => /\ ~NotNone(kwargs, "energy_rate_increase_per_update")
                  /\ ~NotNone(kwargs, "energy_rate_decrease_per_update")
        /\ (HasKey(kwargs, "fit_to_limit") /\ kwargs["fit_to_limit"] = FALSE)
               => /\ NotNone(kwargs, "energy_rate_increase_per_update")
                  /\ NotNone(kwargs, "energy_rate_decrease_per_update")

C22_Witness ==
    /\ outcome = "accepted"
    /\ NotNone(kwargs, "initial_buying_rate")
    /\ NotNone(kwargs, "final_buying_rate")
    /\ NotNone(kwargs, "final_selling_rate")
    /\ NotNone(kwargs, "initial_selling_rate")
    /\ kwargs["initial_buying_rate"] < kwargs["final_selling_rate"]
    /\ HasKey(kwargs, "fit_to_limit")
    /\ kwargs["fit_to_limit"] = FALSE

\* ---------------------------------------------- SimulationAssetsInfo
\* "/ 1000.0": the Wh in a kWh.
WhPerKwh == 1000
\* The unit of total_energy_demand_kwh in the model, which has no fractions:
\* the thousandth of a kWh.
PerKwh == 1000

\* The fields update writes, the fields update_from_repr writes, and FIELDS.
\* The other fields are kept in their own unit.
LoadFields ==
    {"number_of_load_type", "total_energy_demand_kwh",
     "number_of_pv_type", "total_energy_generated_kwh"}
ReprFields ==
    {"number_of_storage_type", "total_energy_capacity_kwh",
     "number_of_power_plant_type", "max_power_plant_power_kw"}
FIELDS == {"number_of_house_type", "avg_assets_per_house"} \cup LoadFields \cup ReprFields

\* "self.assets_info = {field: 0 for field in SimulationAssetsInfo.FIELDS}".
NewAssetsInfo == [field \in FIELDS |-> 0]

\* dict.update: the keys of new replace the ones of old.
DictUpdate(old, new) == new @@ old

\* The body of the loop of update for one area: the if / elif on the keys of
\* area_result.
CountArea(updated, area_result) ==
    IF HasKey(area_result, "total_energy_demanded_wh")
    THEN [updated EXCEPT
             !["number_of_load_type"] = @ + 1,
             !["total_energy_demand_kwh"] =
                 @ + (area_result["total_energy_demanded_wh"] * PerKwh) \div WhPerKwh]
    ELSE IF HasKey(area_result, "pv_production_kWh")
    THEN [updated EXCEPT
             !["number_of_pv_type"] = @ + 1,
             !["total_energy_generated_kwh"] = @ + area_result["pv_production_kWh"]]
    ELSE updated

\* "for area_uuid, area_result in core_stats.items():" from area i on, with
\* "self.assets_info.update(updated_results_dict)" at the end of each pass.
RECURSIVE UpdateLoop(_, _, _, _)
UpdateLoop(info, updated, stats, i) ==
    IF i > Len(stats) THEN info
    ELSE LET next == CountArea(updated, stats[i])
         IN  UpdateLoop(DictUpdate(info, next), next, stats, i + 1)

\* A variant of update whose counts start from the values of assets_info.
update_accumulating(info, stats) ==
    UpdateLoop(info, [field \in LoadFields |-> info[field]], stats, 1)

\* SimulationAssetsInfo.update(area_result_dict, core_stats,
\* current_market_slot): the value of assets_info after the call. The two
\* other arguments are not read.
update(info, stats) ==
    UpdateLoop(info, [field \in LoadFields |-> 0], stats, 1)

\* The body of the loop of update_from_repr for one area, which the tests
\* is_prosumer_node_type and is_finite_power_plant_node_type put in a kind.
CountRepr(updated, area_dict) ==
    IF area_dict.kind = "prosumer"
    THEN [updated EXCEPT
             !["number_of_storage_type"] = @ + 1,
             !["total_energy_capacity_kwh"] =
                 @ + IF HasKey(area_dict, "battery_capacity_kWh")
                     THEN area_dict["battery_capacity_kWh"] ELSE 0]
    ELSE IF area_dict.kind = "power_plant"
    THEN [updated EXCEPT
             !["number_of_power_plant_type"] = @ + 1,
             !["max_power_plant_power_kw"] =
                 @ + IF HasKey(area_dict, "max_available_power_kW")
                     THEN area_dict["max_available_power_kW"] ELSE 0]
    ELSE updated

RECURSIVE ReprLoop(_, _, _, _)
ReprLoop(info, updated, areas, i) ==
    IF i > Len(areas) THEN info
    ELSE LET next == CountRepr(updated, areas[i])
         IN  ReprLoop(DictUpdate(info, next), next, areas, i + 1)

\* SimulationAssetsInfo.update_from_repr(area_representation), on the areas
\* in the order of scenario_representation_traversal.
update_from_repr(info, areas) ==
    ReprLoop(info, [field \in ReprFields |-> 0], areas, 1)

\* The inputs. core_stats is a dict of area results, read in its order: a
\* load, a PV, an area with both keys, an area with neither.
MaxAreas == 2
AreaResults ==
    {("total_energy_demanded_wh" :> wh) : wh \in {1, 2}}
        \cup {("pv_production_kWh" :> 1)}
        \cup {("total_energy_demanded_wh" :> 1) @@ ("pv_production_kWh" :> 2)}
        \cup {("bought_trades" :> 1)}
CoreStats == UNION {[1 .. n -> AreaResults] : n \in 0 .. MaxAreas}
AreaDicts ==
    {[kind |-> "prosumer", battery_capacity_kWh |-> 1],
     [kind |-> "power_plant", max_available_power_kW |-> 2],
     [kind |-> "other"]}
Representations == UNION {[1 .. n -> AreaDicts] : n \in 0 .. MaxAreas}

\* After "SimulationAssetsInfo()": core_stats is the argument of the latest
\* call of update, none yet.
InitAssets ==
    /\ NoCall
    /\ kwargs = NoKwargs
    /\ outcome = "none"
    /\ assets_info = NewAssetsInfo
    /\ core_stats = <<>>

Update ==
    \E stats \in CoreStats :
        /\ assets_info' = update(assets_info, stats)
        /\ core_stats' = <<stats>>
        /\ UNCHANGED <<matching, kwargs, outcome>>

UpdateFromRepr ==
    \E areas \in Representations :
        /\ assets_info' = update_from_repr(assets_info, areas)
        /\ UNCHANGED <<matching, kwargs, outcome, core_stats>>

NextAssets == Update \/ UpdateFromRepr

SpecAssets == InitAssets /\ [][NextAssets]_vars

\* The areas of one core_stats that count as loads and as PVs (an area with
\* both keys is a load), and the sum of a key over a set of areas.
LoadsOf(stats) == {i \in 1 .. Len(stats) : HasKey(stats[i], "total_energy_demanded_wh")}
PVsOf(stats) ==
    {i \in 1 .. Len(stats) : HasKey(stats[i], "pv_production_kWh")} \ LoadsOf(stats)

RECURSIVE SumOf(_, _, _)
SumOf(stats, key, S) ==
    IF S = {} THEN 0
    ELSE LET i == CHOOSE x \in S : TRUE
         IN  stats[i][key] + SumOf(stats, key, S \ {i})

\* A step of update with another argument than the call before it.
C23_Step ==
    core_stats' # core_stats =>
        LET stats == core_stats'[1]
        IN  /\ stats # <<>> =>
                 /\ assets_info'["number_of_load_type"] = Cardinality(LoadsOf(stats))
                 /\ assets_info'["total_energy_demand_kwh"] * WhPerKwh =
                        SumOf(stats, "total_energy_demanded_wh", LoadsOf(stats)) * PerKwh
                 /\ assets_info'["number_of_pv_type"] = Cardinality(PVsOf(stats))
                 /\ assets_info'["total_energy_generated_kwh"] =
                        SumOf(stats, "pv_production_kWh", PVsOf(stats))
            /\ stats = <<>> => assets_info' = assets_info
            /\ \A field \in FIELDS \ LoadFields : assets_info'[field] = assets_info[field]

\* C23: update does not accumulate across calls. After update with a
\* non-empty core_stats the four load and PV fields are the counts and sums
\* over that call's core_stats alone, an area with both keys counted as a
\* load only; an update with an empty core_stats leaves assets_info as it
\* was; and update never changes the storage, power-plant or house fields.
C23_NoAccumulation == [][C23_Step]_vars

C23_Witness ==
    /\ core_stats # <<>>
    /\ Len(core_stats[1]) = 2
    /\ LoadsOf(core_stats[1]) = {1}
    /\ HasKey(core_stats[1][1], "pv_production_kWh")
    /\ PVsOf(core_stats[1]) = {2}
    /\ assets_info["number_of_load_type"] = 1
    /\ assets_info["number_of_pv_type"] = 1
    /\ assets_info["number_of_storage_type"] = 2

====
